---- MODULE Spec2Model ----
(***************************************************************************)
(* A model of the Yupdates Rust SDK client core: item-time normalization   *)
(* (src/src/lib.rs), the single-chunk and chunked submission of items, the *)
(* read path with its option validation (src/src/api.rs) and the           *)
(* classification of responses (src/src/errors.rs).                        *)
(*                                                                         *)
(* Strings are sequences of one-character strings.  A u64 is the sequence  *)
(* of its decimal digits without leading zeros, because the item-time      *)
(* bounds (9,999,999,999,999) and u64::MAX do not fit a 32-bit integer.    *)
(***************************************************************************)
EXTENDS Integers, Sequences, FiniteSets, TLC

VARIABLES
    pc,          \* position of the call: "idle", "post", "sleep", "get", "done"
    op,          \* the operation in progress
    rest,        \* new_items_all: the items the chunk iterator has not yielded
    sleep_ms,    \* new_items_all: the inter-chunk delay
    feed_id,     \* new_items_all: Option<String>, the captured feed id
    given,       \* the arguments of the call in progress
    result,      \* Option<Result<..>> returned by the call
    log,         \* what the call did: requests sent, responses, sleeps
    item_time,   \* normalize_item_time: the input string
    normalized,  \* normalize_item_time: Option of the result on item_time
    renormalized, \* normalize_item_time: Option of the result on normalized
    other_time,  \* normalize_item_time: a second input string
    other_normalized, \* normalize_item_time: Option of the result on other_time
    options,     \* validate_read_options: the caller's ReadOptions value
    validated,   \* validate_read_options: Option of the result on options
    revalidated, \* validate_read_options: Option of the result of a second call
    calls,       \* concurrent new_items_all: the locals of each call
    wire         \* concurrent new_items_all: the requests in the order sent

vars == <<pc, op, rest, sleep_ms, feed_id, given, result, log,
          item_time, normalized, renormalized, other_time, other_normalized,
          options, validated, revalidated, calls, wire>>

callVars == <<pc, op, rest, sleep_ms, feed_id, given, result, log>>
normVars == <<item_time, normalized, renormalized, other_time, other_normalized>>
validateVars == <<options, validated, revalidated>>
concurrentVars == <<calls, wire>>

\* ---------------------------------------------------------------------------
\* Option and Result values
\* ---------------------------------------------------------------------------
None == [some |-> FALSE]
Some(v) == [some |-> TRUE, v |-> v]

Ok(v) == [ok |-> TRUE, val |-> v]
Err(kind, msg, code) == [ok |-> FALSE, kind |-> kind, msg |-> msg, code |-> code]

\* ---------------------------------------------------------------------------
\* Strings and decimal numbers
\* ---------------------------------------------------------------------------
DigitChars == {"0", "1", "2", "3", "4", "5", "6", "7", "8", "9"}

DigitVal(c) ==
    CASE c = "0" -> 0 [] c = "1" -> 1 [] c = "2" -> 2 [] c = "3" -> 3
      [] c = "4" -> 4 [] c = "5" -> 5 [] c = "6" -> 6 [] c = "7" -> 7
      [] c = "8" -> 8 [] c = "9" -> 9

Repeat(c, n) == [i \in 1..n |-> c]

RECURSIVE StripZeros(_)
\* The decimal digits of the value of a digit string: no leading zeros.
StripZeros(d) ==
    IF Len(d) > 1 /\ d[1] = "0" THEN StripZeros(Tail(d)) ELSE d

RECURSIVE LexLeq(_, _)
LexLeq(a, b) ==
    IF a = <<>> THEN TRUE
    ELSE IF DigitVal(a[1]) # DigitVal(b[1]) THEN DigitVal(a[1]) < DigitVal(b[1])
    ELSE LexLeq(Tail(a), Tail(b))

\* a <= b for two u64 values (digit sequences without leading zeros)
NumLeq(a, b) ==
    \/ Len(a) < Len(b)
    \/ Len(a) = Len(b) /\ LexLeq(a, b)

U64Max ==
    <<"1","8","4","4","6","7","4","4","0","7","3","7","0","9","5","5","1","6","1","5">>

MaxBaseMs == Repeat("9", 13)
MaxSlot == Repeat("9", 5)
BaseWidth == 13
SlotWidth == 5

\* str::parse::<u64>(): an optional leading '+', then one or more decimal
\* digits, the value at most u64::MAX.
ParseU64(s) ==
    LET digits == IF Len(s) > 1 /\ s[1] = "+" THEN Tail(s) ELSE s
    IN  IF s = <<>> THEN None
        ELSE IF \E i \in 1..Len(digits) : digits[i] \notin DigitChars THEN None
        ELSE IF ~NumLeq(StripZeros(digits), U64Max) THEN None
        ELSE Some(StripZeros(digits))

parse_bounded_int(int_str, name, upper_bound) ==
    LET parsed == ParseU64(int_str)
    IN  IF ~parsed.some THEN Err("IllegalParameter", "invalid u64", 0)
        ELSE IF ~NumLeq(parsed.v, upper_bound)
             THEN Err("IllegalParameter",
                      "item time " \o name \o " may not be larger than", 0)
        ELSE Ok(parsed.v)

RECURSIVE Split(_, _)
\* str::split(sep): the pieces between the separators (always at least one)
Split(s, sep) ==
    IF \A i \in 1..Len(s) : s[i] # sep THEN <<s>>
    ELSE LET k == CHOOSE i \in 1..Len(s) :
                      s[i] = sep /\ \A j \in 1..(i-1) : s[j] # sep
         IN  <<SubSeq(s, 1, k-1)>> \o Split(SubSeq(s, k+1, Len(s)), sep)

\* PadZeros without any padding: format!("{}", n)
PadNone(n, w) == n

\* PadZeros padding on the right: format!("{:0<w}", n)
PadZerosRight(n, w) ==
    IF Len(n) >= w THEN n ELSE n \o Repeat("0", w - Len(n))

\* PadZeros padding with spaces: format!("{:>w}", n)
PadSpaces(n, w) ==
    IF Len(n) >= w THEN n ELSE Repeat(" ", w - Len(n)) \o n

\* format!("{:0>w}", n): the decimal digits of n, left-padded with '0' to
\* at least w characters
PadZeros(n, w) ==
    IF Len(n) >= w THEN n ELSE Repeat("0", w - Len(n)) \o n

normalize_item_time(it) ==
    LET parts == Split(it, ".")
        base_str == IF Len(parts) = 1 THEN it ELSE parts[1]
        slot_str == IF Len(parts) = 1 THEN <<"0">> ELSE parts[2]
        base_ms == parse_bounded_int(base_str, "base ms", MaxBaseMs)
        slot == parse_bounded_int(slot_str, "suffix", MaxSlot)
    IN  IF Len(parts) > 2 THEN Err("Deserialization", "invalid item time", 0)
        ELSE IF ~base_ms.ok THEN base_ms
        ELSE IF ~slot.ok THEN slot
        ELSE Ok(PadZeros(base_ms.val, BaseWidth) \o <<".">> \o PadZeros(slot.val, SlotWidth))

\* ---------------------------------------------------------------------------
\* Inputs of normalize_item_time
\* ---------------------------------------------------------------------------
MaxLen == 3

Alphabet == {"0", "1", "9", ".", "+", "x"}

ShortStrings == UNION {[1..n -> Alphabet] : n \in 0..MaxLen}

Segments ==
    { <<>>, <<"0">>, <<"7">>, <<"0","0","7">>, <<"1","2">>, <<"+","5">>,
      <<"-","1">>, <<"1","x">>, <<" ","1">>,
      MaxSlot, <<"1","0","0","0","0","0">>, Repeat("0", 5) \o MaxSlot,
      <<"1","6","6","1","5","6","4","0","1","3","5","5","5">>,
      MaxBaseMs, <<"1">> \o Repeat("0", 13), <<"0">> \o MaxBaseMs,
      U64Max, SubSeq(U64Max, 1, 19) \o <<"6">> }

ItemTimeInputs ==
    ShortStrings \cup Segments
    \cup {a \o <<".">> \o b : a \in Segments, b \in Segments}
    \cup {a \o <<".">> \o a \o <<".">> \o b : a \in {<<>>, <<"7">>}, b \in {<<>>, <<"1","2">>}}

\* ---------------------------------------------------------------------------
\* Responses of the transport, and their interpretation
\* ---------------------------------------------------------------------------
\* A body text: not JSON at all, or a JSON object with some of the fields the
\* service uses.
Body(obj, code, fid, message, error, detail, items) ==
    [obj |-> obj, code |-> code, feed_id |-> fid, message |-> message,
     error |-> error, error_detail |-> detail, feed_items |-> items]

NotJson == Body(FALSE, FALSE, None, FALSE, None, None, None)
NewItemsText(fid) == Body(TRUE, TRUE, Some(fid), TRUE, None, None, None)
PingText == Body(TRUE, TRUE, None, TRUE, None, None, None)
ReadText(items) == Body(TRUE, TRUE, None, FALSE, None, None, Some(items))
ErrorText(error, detail) == Body(TRUE, FALSE, None, FALSE, error, detail, None)

FeedIds == {"feed-A", "feed-B"}
ErrorTexts == {None, Some(""), Some("not found")}
DetailTexts == {None, Some(""), Some("detail")}

Bodies ==
    {NotJson, PingText, ReadText(<<>>), ReadText(<<"item-1", "item-2">>)}
    \cup {NewItemsText(f) : f \in FeedIds}
    \cup {ErrorText(e, d) : e \in ErrorTexts, d \in DetailTexts}

StatusCodes == {200, 201, 302, 404, 500}

\* What awaiting a request gives: a transport failure, or (code, text)
TransportError == [err |-> TRUE, code |-> 0, text |-> NotJson]
Response(code, text) == [err |-> FALSE, code |-> code, text |-> text]
Outcomes == {TransportError} \cup {Response(c, t) : c \in StatusCodes, t \in Bodies}

\* JsonError reported as a bare status code
JsonErrorAsHttpCode == Err("HttpCode", "", 200)

\* From<serde_json::Error> for Error
JsonError == Err("Deserialization", "json", 0)

\* serde_json::from_str::<NewInputItemsResponse>
DecodeNewInputItemsResponse(text) ==
    IF text.obj /\ text.code /\ text.feed_id.some /\ text.message
    THEN Ok([feed_id |-> text.feed_id.v])
    ELSE JsonError

\* serde_json::from_str::<PingResponse>
DecodePingResponse(text) ==
    IF text.obj /\ text.code /\ text.message THEN Ok("pong") ELSE JsonError

\* serde_json::from_str::<ReadFeedItemsResponse>, then .feed_items
DecodeReadFeedItemsResponse(text) ==
    IF text.obj /\ text.code /\ text.feed_items.some
    THEN Ok(text.feed_items.v)
    ELSE JsonError

\* msg_from_api_error_data joining whenever a detail is present
msg_always_joined(data) ==
    LET err == IF data.error.some THEN data.error.v ELSE ""
    IN  IF ~data.error_detail.some THEN err
        ELSE IF ~data.error.some THEN data.error_detail.v
        ELSE err \o " | " \o data.error_detail.v

msg_from_api_error_data(data) ==
    LET err == IF data.error.some THEN data.error.v ELSE ""
    IN  IF ~data.error_detail.some THEN err
        ELSE IF err = "" THEN data.error_detail.v
        ELSE err \o " | " \o data.error_detail.v

\* Every field of ApiErrorData is optional: any JSON object decodes as one.
api_error(code, text) ==
    IF text.obj
    THEN Err("DetailedHttpCode", msg_from_api_error_data(text), code)
    ELSE Err("HttpCode", "", code)

\* Interpret taking every 2xx status for a success
InterpretAny2xx(o, decoded) ==
    IF o.err THEN Err("Reqwest", "transport", 0)
    ELSE IF o.code >= 200 /\ o.code < 300 THEN decoded
    ELSE IF o.text.obj
    THEN Err("DetailedHttpCode", "", o.code)
    ELSE Err("HttpCode", "", o.code)

\* What a call makes of the outcome of its request; decoded is the text
\* decoded as the payload the call expects
Interpret(o, decoded) ==
    IF o.err THEN Err("Reqwest", "transport", 0)
    ELSE IF o.code = 200 THEN decoded
    ELSE api_error(o.code, o.text)

\* ---------------------------------------------------------------------------
\* The log of a call: what it sent, what it received, when it slept
\* ---------------------------------------------------------------------------
Post(items) == [ev |-> "POST", items |-> items]
Get(path, fid, query) == [ev |-> "GET", path |-> path, feed_id |-> fid, query |-> query]
Recv(o) == [ev |-> "RESP", outcome |-> o]
Sleep(ms) == [ev |-> "SLEEP", ms |-> ms]

\* ---------------------------------------------------------------------------
\* new_items and new_items_all
\* ---------------------------------------------------------------------------
MaxItemsPerCall == 10
ChunkSize == 10
MinSleepMs == 5

Min(a, b) == IF a < b THEN a ELSE b

\* ChunksNext yielding chunks that overlap by one item
ChunksNextOverlap(r) ==
    [chunk |-> SubSeq(r, 1, Min(ChunkSize, Len(r))),
     rest |-> SubSeq(r, Min(ChunkSize, Len(r)), Len(r) - 1)]

\* slice::chunks(ChunkSize), Iterator::next on a non-empty remainder: the
\* next chunk and what remains
ChunksNext(r) ==
    [chunk |-> SubSeq(r, 1, Min(ChunkSize, Len(r))),
     rest |-> SubSeq(r, Min(ChunkSize, Len(r)) + 1, Len(r))]

\* PeekIsSome answering yes after the last chunk too
PeekAlways(r) == TRUE

\* Peekable::peek().is_some()
PeekIsSome(r) == r # <<>>

\* TooManyItems with the comparison inverted
TooManyItemsInverted(items) == Len(items) < MaxItemsPerCall

\* TooManyItems rejecting a full chunk
TooManyItemsOffByOne(items) == Len(items) >= MaxItemsPerCall

\* the size check of new_items_with_args
TooManyItems(items) == Len(items) > MaxItemsPerCall

TooManyError == Some(Err("IllegalParameter", "too many items", 0))

\* FeedIdResult taking a missing feed id for an empty one
FeedIdResultLenient(fid) == IF fid.some THEN Ok(fid.v) ELSE Ok("")

\* the final match on feed_id of new_items_all_with_args
FeedIdResult(fid) ==
    IF fid.some THEN Ok(fid.v)
    ELSE Err("IllegalResult", "new items API success(es) without a feed ID", 0)

\* The head of the while loop of new_items_all_with_args, run to the next
\* await or to the return, with r left in the iterator and fid captured.
LoopHead(r, fid, lg) ==
    /\ feed_id' = fid
    /\ IF r = <<>>
       THEN /\ rest' = r
            /\ log' = lg
            /\ result' = Some(FeedIdResult(fid))
            /\ pc' = "done"
       ELSE LET n == ChunksNext(r)
            IN  /\ rest' = n.rest
                /\ IF TooManyItems(n.chunk)
                   THEN /\ log' = lg
                        /\ result' = TooManyError
                        /\ pc' = "done"
                   ELSE /\ log' = Append(lg, Post(n.chunk))
                        /\ result' = None
                        /\ pc' = "post"

\* SleepTooShort accepting one millisecond less
SleepTooShortOffByOne(ms) == ms < MinSleepMs - 1

\* the delay check of new_items_all_with_args
SleepTooShort(ms) == ms < MinSleepMs

\* A call of new_items: the size check and the POST
NewItems(items) ==
    /\ pc = "idle"
    /\ op' = "new_items"
    /\ given' = [items |-> items]
    /\ IF TooManyItems(items)
       THEN /\ result' = TooManyError
            /\ pc' = "done"
            /\ log' = log
       ELSE /\ result' = None
            /\ pc' = "post"
            /\ log' = Append(log, Post(items))
    /\ UNCHANGED <<rest, sleep_ms, feed_id>>
    /\ UNCHANGED <<normVars, validateVars, concurrentVars>>

\* A call of new_items_all: the delay check, then the loop up to the first
\* POST (or to the return when there is no chunk)
NewItemsAll(items, ms) ==
    /\ pc = "idle"
    /\ op' = "new_items_all"
    /\ given' = [items |-> items, sleep_ms |-> ms]
    /\ sleep_ms' = ms
    /\ IF SleepTooShort(ms)
       THEN /\ result' = Some(Err("IllegalParameter", "sleep_ms must be 5 or more", 0))
            /\ pc' = "done"
            /\ UNCHANGED <<rest, feed_id, log>>
       ELSE LoopHead(items, None, log)
    /\ UNCHANGED <<normVars, validateVars, concurrentVars>>

\* Capture overwriting the feed id with every response
CaptureLatest(fid, response) == Some(response.feed_id)

\* The feed id kept after a successful chunk
Capture(fid, response) ==
    IF ~fid.some THEN Some(response.feed_id) ELSE fid

\* Propagate swallowing the error: the loop pauses and goes on
PropagateNothing(r, lg) ==
    /\ log' = Append(lg, Sleep(sleep_ms))
    /\ pc' = "sleep"
    /\ UNCHANGED <<rest, feed_id, result>>

\* The ? operator on an Err: the call returns it at once
Propagate(r, lg) ==
    /\ result' = Some(r)
    /\ pc' = "done"
    /\ log' = lg
    /\ UNCHANGED <<rest, feed_id>>

\* The POST of new_items_with_args completes with outcome o
PostResponse(o) ==
    /\ pc = "post"
    /\ LET r == Interpret(o, DecodeNewInputItemsResponse(o.text))
           lg == Append(log, Recv(o))
       IN  IF op = "new_items"
           THEN /\ result' = Some(r)
                /\ pc' = "done"
                /\ log' = lg
                /\ UNCHANGED <<rest, feed_id>>
           ELSE IF ~r.ok
           THEN Propagate(r, lg)
           ELSE IF PeekIsSome(rest)
           THEN /\ feed_id' = Capture(feed_id, r.val)
                /\ log' = Append(lg, Sleep(sleep_ms))
                /\ pc' = "sleep"
                /\ UNCHANGED <<rest, result>>
           ELSE LoopHead(rest, Capture(feed_id, r.val), lg)
    /\ UNCHANGED <<op, given, sleep_ms>>
    /\ UNCHANGED <<normVars, validateVars, concurrentVars>>

\* The sleep between two chunks is over: the loop goes on
SleepDone ==
    /\ pc = "sleep"
    /\ LoopHead(rest, feed_id, log)
    /\ UNCHANGED <<op, given, sleep_ms>>
    /\ UNCHANGED <<normVars, validateVars, concurrentVars>>

\* ---------------------------------------------------------------------------
\* read_items and ping
\* ---------------------------------------------------------------------------
FeedIdLen == 45
MaxItemsWithContent == 10
MaxItemsLimit == 50
DefaultMaxItems == 10

WhiteSpace == {" ", "\t", "\n"}

\* A character that takes two bytes in UTF-8
WideChar == "e-acute"

\* str::len() counts bytes
ByteLen(s) == Len(s) + Cardinality({i \in 1..Len(s) : s[i] = WideChar})

RECURSIVE TrimStart(_)
TrimStart(s) ==
    IF s # <<>> /\ s[1] \in WhiteSpace THEN TrimStart(Tail(s)) ELSE s

RECURSIVE TrimEnd(_)
TrimEnd(s) ==
    IF s # <<>> /\ s[Len(s)] \in WhiteSpace
    THEN TrimEnd(SubSeq(s, 1, Len(s) - 1)) ELSE s

\* str::trim()
Trim(s) == TrimEnd(TrimStart(s))

ReadOptions(max_items, include_item_content, item_time_after, item_time_before) ==
    [max_items |-> max_items, include_item_content |-> include_item_content,
     item_time_after |-> item_time_after, item_time_before |-> item_time_before]

\* impl Default for ReadOptions
DefaultReadOptions == ReadOptions(DefaultMaxItems, FALSE, None, None)

\* NormalizeBound dropping a bound that does not normalize
NormalizeBoundLenient(bound) ==
    IF ~bound.some THEN Ok(None)
    ELSE LET n == normalize_item_time(bound.v)
         IN  IF n.ok THEN Ok(Some(n.val)) ELSE Ok(None)

\* NormalizeBound passing the bound on as it was given
NormalizeBoundRaw(bound) ==
    IF ~bound.some THEN Ok(None)
    ELSE LET n == normalize_item_time(bound.v)
         IN  IF n.ok THEN Ok(bound) ELSE n

\* Option<&String> -> Result<Option<String>>: normalize a bound that is set
NormalizeBound(bound) ==
    IF ~bound.some THEN Ok(None)
    ELSE LET n == normalize_item_time(bound.v)
         IN  IF n.ok THEN Ok(Some(n.val)) ELSE n

\* validate_read_options without the check that excludes two bounds
validate_read_options_both(g) ==
    LET after == NormalizeBound(g.item_time_after)
        before == NormalizeBound(g.item_time_before)
    IN  IF g.include_item_content
           /\ (g.max_items < 1 \/ g.max_items > MaxItemsWithContent)
        THEN Err("IllegalParameter",
                 "max_items must be 1 to 10 when include_item_content is true", 0)
        ELSE IF g.max_items < 1 \/ g.max_items > MaxItemsLimit
        THEN Err("IllegalParameter", "max_items must be 1 to 50", 0)
        ELSE IF ~after.ok THEN after
        ELSE IF ~before.ok THEN before
        ELSE Ok(ReadOptions(g.max_items, g.include_item_content, after.val, before.val))

\* validate_read_options with the general range check made first
validate_read_options_swapped(g) ==
    LET after == NormalizeBound(g.item_time_after)
        before == NormalizeBound(g.item_time_before)
    IN  IF g.max_items < 1 \/ g.max_items > MaxItemsLimit
        THEN Err("IllegalParameter", "max_items must be 1 to 50", 0)
        ELSE IF g.include_item_content
           /\ (g.max_items < 1 \/ g.max_items > MaxItemsWithContent)
        THEN Err("IllegalParameter",
                 "max_items must be 1 to 10 when include_item_content is true", 0)
        ELSE IF g.item_time_after.some /\ g.item_time_before.some
        THEN Err("IllegalParameter",
                 "cannot simultaneously query with item_time_after and item_time_before", 0)
        ELSE IF ~after.ok THEN after
        ELSE IF ~before.ok THEN before
        ELSE Ok(ReadOptions(g.max_items, g.include_item_content, after.val, before.val))

validate_read_options(g) ==
    LET after == NormalizeBound(g.item_time_after)
        before == NormalizeBound(g.item_time_before)
    IN  IF g.include_item_content
           /\ (g.max_items < 1 \/ g.max_items > MaxItemsWithContent)
        THEN Err("IllegalParameter",
                 "max_items must be 1 to 10 when include_item_content is true", 0)
        ELSE IF g.max_items < 1 \/ g.max_items > MaxItemsLimit
        THEN Err("IllegalParameter", "max_items must be 1 to 50", 0)
        ELSE IF g.item_time_after.some /\ g.item_time_before.some
        THEN Err("IllegalParameter",
                 "cannot simultaneously query with item_time_after and item_time_before", 0)
        ELSE IF ~after.ok THEN after
        ELSE IF ~before.ok THEN before
        ELSE Ok(ReadOptions(g.max_items, g.include_item_content, after.val, before.val))

\* the feed_id check of read_items_with_args
FeedIdIllegal(fid) == ByteLen(Trim(fid)) # FeedIdLen

\* the options the request is built from: the default, or the validated ones
Validated(read_options) ==
    IF ~read_options.some THEN Ok(DefaultReadOptions)
    ELSE validate_read_options(read_options.v)

\* A call of read_items (read_options = None) or read_items_with_options:
\* the feed_id check, the validation of the options, then the GET
ReadItems(fid, read_options) ==
    /\ pc = "idle"
    /\ op' = "read_items"
    /\ given' = [feed_id |-> fid, read_options |-> read_options]
    /\ IF FeedIdIllegal(fid)
       THEN /\ result' = Some(Err("IllegalParameter",
                                  "feed_id is expected to be 45 characters", 0))
            /\ pc' = "done"
            /\ log' = log
       ELSE IF ~Validated(read_options).ok
       THEN /\ result' = Some(Validated(read_options))
            /\ pc' = "done"
            /\ log' = log
       ELSE /\ result' = None
            /\ pc' = "get"
            /\ log' = Append(log, Get("feeds", Trim(fid), Validated(read_options).val))
    /\ UNCHANGED <<rest, sleep_ms, feed_id>>
    /\ UNCHANGED <<normVars, validateVars, concurrentVars>>

\* A call of ping: the GET
Ping ==
    /\ pc = "idle"
    /\ op' = "ping"
    /\ given' = [none |-> TRUE]
    /\ result' = None
    /\ pc' = "get"
    /\ log' = Append(log, Get("ping", <<>>, DefaultReadOptions))
    /\ UNCHANGED <<rest, sleep_ms, feed_id>>
    /\ UNCHANGED <<normVars, validateVars, concurrentVars>>

\* The GET of read_items_with_args or ping_with_args completes with outcome o
GetResponse(o) ==
    /\ pc = "get"
    /\ result' = Some(IF op = "ping" THEN Interpret(o, DecodePingResponse(o.text))
                      ELSE Interpret(o, DecodeReadFeedItemsResponse(o.text)))
    /\ pc' = "done"
    /\ log' = Append(log, Recv(o))
    /\ UNCHANGED <<op, given, rest, sleep_ms, feed_id>>
    /\ UNCHANGED <<normVars, validateVars, concurrentVars>>

\* The caller has its result; the client keeps no state between calls
Return ==
    /\ pc = "done"
    /\ pc' = "idle"
    /\ op' = "none"
    /\ given' = [none |-> TRUE]
    /\ rest' = <<>>
    /\ sleep_ms' = 0
    /\ feed_id' = None
    /\ result' = None
    /\ log' = <<>>
    /\ UNCHANGED <<normVars, validateVars, concurrentVars>>

\* ---------------------------------------------------------------------------
\* Inputs of the calls
\* ---------------------------------------------------------------------------
MaxItems == 24

\* Item sequences of every length up to MaxItems: all items distinct, or
\* items repeating with period 3
ItemSeqs ==
    {[i \in 1..n |-> i] : n \in 0..MaxItems}
    \cup {[i \in 1..n |-> i % 3] : n \in 0..MaxItems}

SleepValues == {0, 1, 2, 3, 4, 5, 128}

FeedIdCores ==
    {Repeat("a", n) : n \in {FeedIdLen - 1, FeedIdLen, FeedIdLen + 1}}
    \cup {Repeat("a", 22) \o <<" ">> \o Repeat("b", 22),
          Repeat("a", FeedIdLen - 1) \o <<WideChar>>,
          Repeat("a", FeedIdLen - 2) \o <<WideChar>>}

FeedIdInputs ==
    FeedIdCores \cup {<<" ">> \o f \o <<"\n">> : f \in FeedIdCores}
    \cup {<<>>, <<" ">> \o Repeat("a", FeedIdLen - 1)}

MaxItemsValues == {0, 1, 10, 11, 50, 51}

BoundInputs ==
    {None, Some(<<"5">>), Some(<<"1", ".", "2">>), Some(<<"1", "x">>),
     Some(<<"1", ".", "2", ".", "3">>), Some(<<"1">> \o Repeat("0", 13)),
     Some(<<"1", ".">>), Some(<<"x", ".">> \o <<"1">> \o Repeat("0", 5)),
     Some(<<"1">> \o Repeat("0", 13) \o <<".", "x">>),
     Some(<<"1", ".", "1">> \o Repeat("0", 5)),
     Some(<<"1">> \o Repeat("0", 13) \o <<".", "1">> \o Repeat("0", 5))}

ReadOptionsInputs ==
    {None} \cup {Some(ReadOptions(m, c, a, b)) :
                    m \in MaxItemsValues, c \in BOOLEAN,
                    a \in BoundInputs, b \in BoundInputs}

\* ---------------------------------------------------------------------------
\* The client: one call at a time, each call a sequence of steps
\* ---------------------------------------------------------------------------
Init ==
    /\ pc = "idle"
    /\ op = "none"
    /\ given = [none |-> TRUE]
    /\ rest = <<>>
    /\ sleep_ms = 0
    /\ feed_id = None
    /\ result = None
    /\ log = <<>>
    /\ item_time = <<>>
    /\ normalized = None
    /\ renormalized = None
    /\ other_time = <<>>
    /\ other_normalized = None
    /\ options = DefaultReadOptions
    /\ validated = None
    /\ revalidated = None
    /\ calls = <<>>
    /\ wire = <<>>

\* The values an action enabled only at position p is tried with
At(p, S) == IF pc = p THEN S ELSE {}

Next ==
    \/ \E items \in At("idle", ItemSeqs) : NewItems(items)
    \/ \E items \in At("idle", ItemSeqs), ms \in SleepValues : NewItemsAll(items, ms)
    \/ \E o \in At("post", Outcomes) : PostResponse(o)
    \/ SleepDone
    \/ \E fid \in At("idle", FeedIdInputs), ro \in ReadOptionsInputs : ReadItems(fid, ro)
    \/ Ping
    \/ \E o \in At("get", Outcomes) : GetResponse(o)
    \/ Return

Spec == Init /\ [][Next]_vars

\* ---------------------------------------------------------------------------
\* normalize_item_time as a function: applied to an input, then to its own
\* result
\* ---------------------------------------------------------------------------
InitNorm ==
    /\ pc = "idle"
    /\ op = "none"
    /\ given = [none |-> TRUE]
    /\ rest = <<>>
    /\ sleep_ms = 0
    /\ feed_id = None
    /\ result = None
    /\ log = <<>>
    /\ item_time \in ItemTimeInputs
    /\ normalized = None
    /\ renormalized = None
    /\ other_time = <<>>
    /\ other_normalized = None
    /\ options = DefaultReadOptions
    /\ validated = None
    /\ revalidated = None
    /\ calls = <<>>
    /\ wire = <<>>

Normalize ==
    /\ ~normalized.some
    /\ normalized' = Some(normalize_item_time(item_time))
    /\ UNCHANGED <<item_time, renormalized, other_time, other_normalized>>
    /\ UNCHANGED <<callVars, validateVars, concurrentVars>>

NormalizeAgain ==
    /\ normalized.some
    /\ normalized.v.ok
    /\ ~renormalized.some
    /\ renormalized' = Some(normalize_item_time(normalized.v.val))
    /\ UNCHANGED <<item_time, normalized, other_time, other_normalized>>
    /\ UNCHANGED <<callVars, validateVars, concurrentVars>>

NextNorm == Normalize \/ NormalizeAgain

SpecNorm == InitNorm /\ [][NextNorm]_vars

\* ---------------------------------------------------------------------------
\* normalize_item_time applied to two inputs, to compare the results
\* ---------------------------------------------------------------------------
BaseTexts ==
    { <<"0">>, <<"7">>, <<"0","0","7">>, <<"1","2">>, <<"+","5">>, <<"9">>,
      <<"1","6","6","1","5","6","4","0","1","3","5","5","5">>,
      SubSeq(MaxBaseMs, 1, 12) \o <<"8">>, MaxBaseMs }

SlotTexts ==
    { <<"0">>, <<"1">>, <<"0","0","0","0","1">>, <<"1","2">>, <<"9">>, MaxSlot }

OrderInputs ==
    BaseTexts \cup {b \o <<".">> \o t : b \in BaseTexts, t \in SlotTexts}

InitOrder ==
    /\ pc = "idle"
    /\ op = "none"
    /\ given = [none |-> TRUE]
    /\ rest = <<>>
    /\ sleep_ms = 0
    /\ feed_id = None
    /\ result = None
    /\ log = <<>>
    /\ item_time \in OrderInputs
    /\ normalized = None
    /\ renormalized = None
    /\ other_time \in OrderInputs
    /\ other_normalized = None
    /\ options = DefaultReadOptions
    /\ validated = None
    /\ revalidated = None
    /\ calls = <<>>
    /\ wire = <<>>

NormalizeOther ==
    /\ ~other_normalized.some
    /\ other_normalized' = Some(normalize_item_time(other_time))
    /\ UNCHANGED <<item_time, normalized, renormalized, other_time>>
    /\ UNCHANGED <<callVars, validateVars, concurrentVars>>

NextOrder == Normalize \/ NormalizeOther

SpecOrder == InitOrder /\ [][NextOrder]_vars

\* ---------------------------------------------------------------------------
\* validate_read_options as a function: applied to the caller's options,
\* then applied to them again
\* ---------------------------------------------------------------------------
ValidateInputs ==
    {ReadOptions(m, c, a, b) :
        m \in MaxItemsValues, c \in BOOLEAN, a \in BoundInputs, b \in BoundInputs}

\* Borrowed writing the validated fields back into the caller's value
BorrowedMut(g, r) == IF r.ok THEN r.val ELSE g

\* The caller's value after validate_read_options(&g) returned r: the
\* parameter is a shared reference and the result is built as a new struct
Borrowed(g, r) == g

InitValidate ==
    /\ pc = "idle"
    /\ op = "none"
    /\ options \in ValidateInputs
    /\ given = [read_options |-> options]
    /\ rest = <<>>
    /\ sleep_ms = 0
    /\ feed_id = None
    /\ result = None
    /\ log = <<>>
    /\ item_time = <<>>
    /\ normalized = None
    /\ renormalized = None
    /\ other_time = <<>>
    /\ other_normalized = None
    /\ validated = None
    /\ revalidated = None
    /\ calls = <<>>
    /\ wire = <<>>

Validate ==
    /\ ~validated.some
    /\ validated' = Some(validate_read_options(options))
    /\ options' = Borrowed(options, validate_read_options(options))
    /\ UNCHANGED revalidated
    /\ UNCHANGED <<callVars, normVars, concurrentVars>>

ValidateAgain ==
    /\ validated.some
    /\ ~revalidated.some
    /\ revalidated' = Some(validate_read_options(options))
    /\ options' = Borrowed(options, validate_read_options(options))
    /\ UNCHANGED validated
    /\ UNCHANGED <<callVars, normVars, concurrentVars>>

NextValidate == Validate \/ ValidateAgain

SpecValidate == InitValidate /\ [][NextValidate]_vars

\* ---------------------------------------------------------------------------
\* Two new_items_all calls on one client, their steps interleaved.  Each
\* call is a future with its own locals; the client's http_client, base_url
\* and token are only read.
\* ---------------------------------------------------------------------------
CallIds == {1, 2}
MaxConcurrentItems == 21

ConcurrentLengths == {0, ChunkSize, ChunkSize + 1, MaxConcurrentItems}
ConcurrentSleeps == {MinSleepMs - 1, MinSleepMs}

\* the items call i is given: no item of one call is an item of the other
CallItems(i, n) == [k \in 1..n |-> 100 * i + k]

ConcurrentOutcomes ==
    {TransportError, Response(200, NotJson), Response(500, NotJson),
     Response(201, NewItemsText("feed-A")),
     Response(404, ErrorText(Some("not found"), None))}
    \cup {Response(200, NewItemsText(f)) : f \in FeedIds}

\* a call not yet made
IdleCall ==
    [pc |-> "idle", items |-> <<>>, sleep_ms |-> 0, rest |-> <<>>,
     feed_id |-> None, result |-> None, log |-> <<>>]

\* LocalFeedId reading one feed id kept for all calls
SharedFeedId(cs, i) ==
    IF cs[1].feed_id.some THEN cs[1].feed_id ELSE cs[2].feed_id

\* let mut feed_id: a local of the future of call i
LocalFeedId(cs, i) == cs[i].feed_id

\* The head of the while loop, on the locals c of one call, with r left in
\* the iterator and fid captured
LoopHeadOf(c, r, fid) ==
    IF r = <<>>
    THEN [c EXCEPT !.rest = r, !.feed_id = fid,
                   !.result = Some(FeedIdResult(fid)), !.pc = "done"]
    ELSE LET n == ChunksNext(r)
         IN  IF TooManyItems(n.chunk)
             THEN [c EXCEPT !.rest = n.rest, !.feed_id = fid,
                            !.result = TooManyError, !.pc = "done"]
             ELSE [c EXCEPT !.rest = n.rest, !.feed_id = fid,
                            !.log = Append(@, Post(n.chunk)), !.pc = "post"]

\* Call i goes on with locals c; a call now at its POST has just sent it
Step(i, c) ==
    /\ calls' = [calls EXCEPT ![i] = c]
    /\ wire' = IF c.pc = "post"
               THEN Append(wire, [call |-> i, items |-> c.log[Len(c.log)].items])
               ELSE wire
    /\ UNCHANGED <<callVars, normVars, validateVars>>

\* Call i of new_items_all starts: the delay check, then the loop up to
\* the first POST
StartAll(i, n, ms) ==
    /\ calls[i].pc = "idle"
    /\ LET c == [IdleCall EXCEPT !.items = CallItems(i, n), !.sleep_ms = ms]
       IN  Step(i, IF SleepTooShort(ms)
                   THEN [c EXCEPT !.result = Some(Err("IllegalParameter",
                                                      "sleep_ms must be 5 or more", 0)),
                                  !.pc = "done"]
                   ELSE LoopHeadOf(c, c.items, None))

\* The POST of call i completes with outcome o
PostResponseOf(i, o) ==
    /\ calls[i].pc = "post"
    /\ LET c == [calls[i] EXCEPT !.log = Append(@, Recv(o))]
           r == Interpret(o, DecodeNewInputItemsResponse(o.text))
           fid == Capture(LocalFeedId(calls, i), r.val)
       IN  Step(i, IF ~r.ok
                   THEN [c EXCEPT !.result = Some(r), !.pc = "done"]
                   ELSE IF PeekIsSome(c.rest)
                   THEN [c EXCEPT !.feed_id = fid,
                                  !.log = Append(@, Sleep(c.sleep_ms)),
                                  !.pc = "sleep"]
                   ELSE LoopHeadOf(c, c.rest, fid))

\* The sleep of call i is over
SleepDoneOf(i) ==
    /\ calls[i].pc = "sleep"
    /\ Step(i, LoopHeadOf(calls[i], calls[i].rest, LocalFeedId(calls, i)))

InitConcurrent ==
    /\ pc = "idle"
    /\ op = "none"
    /\ given = [none |-> TRUE]
    /\ rest = <<>>
    /\ sleep_ms = 0
    /\ feed_id = None
    /\ result = None
    /\ log = <<>>
    /\ item_time = <<>>
    /\ normalized = None
    /\ renormalized = None
    /\ other_time = <<>>
    /\ other_normalized = None
    /\ options = DefaultReadOptions
    /\ validated = None
    /\ revalidated = None
    /\ calls = [i \in CallIds |-> IdleCall]
    /\ wire = <<>>

NextConcurrent ==
    \E i \in CallIds :
        \/ \E n \in ConcurrentLengths, ms \in ConcurrentSleeps : StartAll(i, n, ms)
        \/ \E o \in ConcurrentOutcomes : PostResponseOf(i, o)
        \/ SleepDoneOf(i)

SpecConcurrent == InitConcurrent /\ [][NextConcurrent]_vars

\* ---------------------------------------------------------------------------
\* Reading the log of a call
\* ---------------------------------------------------------------------------
IsPost(e) == e.ev = "POST"
IsResp(e) == e.ev = "RESP"
IsSleep(e) == e.ev = "SLEEP"

Posts(lg) == SelectSeq(lg, IsPost)
Resps(lg) == SelectSeq(lg, IsResp)
Sleeps(lg) == SelectSeq(lg, IsSleep)

RECURSIVE ConcatItems(_)
ConcatItems(posts) ==
    IF posts = <<>> THEN <<>> ELSE Head(posts).items \o ConcatItems(Tail(posts))

CeilDiv(n, d) == (n + d - 1) \div d

\* A response that accepts a chunk: status 200 and a body with the feed id
Accepted(o) ==
    /\ ~o.err
    /\ o.code = 200
    /\ o.text.obj /\ o.text.code /\ o.text.message /\ o.text.feed_id.some

Returned == pc = "done" /\ result.some
ReturnedOk == Returned /\ result.v.ok
ReturnedErr(kind) == Returned /\ ~result.v.ok /\ result.v.kind = kind

\* ---------------------------------------------------------------------------
\* Claims on the chunked submission
\* ---------------------------------------------------------------------------

\* C1: a new_items_all call over n >= 1 items that succeeds has issued
\* exactly ceil(n/10) POSTs; every chunk but the last has 10 items, the last
\* has 1 to 10, and the chunks concatenated in the order sent are the input.
C1_Chunking ==
    (op = "new_items_all" /\ ReturnedOk /\ Len(given.items) >= 1) =>
        LET P == Posts(log)
        IN  /\ Len(P) = CeilDiv(Len(given.items), 10)
            /\ \A i \in 1..(Len(P) - 1) : Len(P[i].items) = 10
            /\ Len(P[Len(P)].items) \in 1..10
            /\ ConcatItems(P) = given.items
            /\ given.sleep_ms >= 5

\* C1 witness: 24 distinct items were sent as chunks of 10, 10 and 4
C1_Witness ==
    /\ op = "new_items_all" /\ ReturnedOk
    /\ given.items = [i \in 1..24 |-> i]
    /\ Len(Posts(log)) = 3
    /\ Len(Posts(log)[3].items) = 4

\* C2: when new_items_all succeeds it returns the feed id of the first
\* chunk's response, whatever ids the later responses carry; and a call
\* whose every chunk was accepted succeeds even when the ids differ.
C2_FirstFeedId ==
    (op = "new_items_all" /\ Returned /\ Resps(log) # <<>>) =>
        LET R == Resps(log)
        IN  /\ result.v.ok => result.v.val = R[1].outcome.text.feed_id.v
            /\ (\A i \in 1..Len(R) : Accepted(R[i].outcome)) => result.v.ok

\* C2 witness: a successful call whose second response named another feed
C2_Witness ==
    /\ op = "new_items_all" /\ ReturnedOk
    /\ Len(Resps(log)) >= 2
    /\ Resps(log)[1].outcome.text.feed_id.v = "feed-A"
    /\ Resps(log)[2].outcome.text.feed_id.v = "feed-B"
    /\ result.v.val = "feed-A"

\* C3: in new_items_all a response that does not accept its chunk ends the
\* call: it is the last event of the log (no later chunk, no retry, no
\* delay), the call has returned that chunk's error, and the chunks sent are
\* exactly the first k chunks of the input, each once, k-1 delays between.
C3_AbortOnFailure ==
    op = "new_items_all" =>
        \A i \in 1..Len(log) :
            (IsResp(log[i]) /\ ~Accepted(log[i].outcome)) =>
                LET P == Posts(log)
                    k == Len(P)
                    o == log[i].outcome
                IN  /\ i = Len(log)
                    /\ Returned /\ ~result.v.ok
                    /\ result.v.kind = (IF o.err THEN "Reqwest"
                                        ELSE IF o.code = 200 THEN "Deserialization"
                                        ELSE IF o.text.obj THEN "DetailedHttpCode"
                                        ELSE "HttpCode")
                    /\ ~o.err /\ o.code # 200 => result.v.code = o.code
                    /\ Len(Resps(log)) = k
                    /\ Len(Sleeps(log)) = k - 1
                    /\ \A j \in 1..k :
                          P[j].items = SubSeq(given.items, 10 * (j - 1) + 1,
                                              Min(10 * j, Len(given.items)))

\* C3 witness: the second of three chunks failed and the call returned
C3_Witness ==
    /\ op = "new_items_all" /\ Returned /\ ~result.v.ok
    /\ Len(given.items) = 24
    /\ Len(Posts(log)) = 2
    /\ Len(Resps(log)) = 2
    /\ Accepted(Resps(log)[1].outcome)
    /\ ~Accepted(Resps(log)[2].outcome)

\* C4: new_items_all over no items (with a legal delay) returns
\* IllegalResult without a POST or a delay, while new_items over no items
\* passes its check and sends its POST.
C4_EmptyInput ==
    /\ (op = "new_items_all" /\ given.items = <<>> /\ given.sleep_ms >= 5) =>
           /\ ReturnedErr("IllegalResult")
           /\ result.v.msg = "new items API success(es) without a feed ID"
           /\ log = <<>>
    /\ (op = "new_items" /\ given.items = <<>>) =>
           /\ Posts(log) = <<Post(<<>>)>>
           /\ ~ReturnedErr("IllegalParameter")
           /\ ~ReturnedErr("IllegalResult")

\* C4 witness: new_items_all over no items has returned IllegalResult
C4_Witness ==
    /\ op = "new_items_all" /\ given.items = <<>> /\ given.sleep_ms = 5
    /\ ReturnedErr("IllegalResult")

\* C5: new_items_all with a delay below 5 ms returns IllegalParameter
\* without any request, whatever the items; with 5 ms or more the delay
\* check never fails.
C5_DelayCheck ==
    op = "new_items_all" =>
        /\ given.sleep_ms < 5 =>
               /\ ReturnedErr("IllegalParameter")
               /\ result.v.msg = "sleep_ms must be 5 or more"
               /\ log = <<>>
        /\ given.sleep_ms >= 5 =>
               ~(Returned /\ ~result.v.ok /\ result.v.msg = "sleep_ms must be 5 or more")

\* C5 witness: 24 items and a delay of 4 ms: IllegalParameter, nothing sent
C5_Witness ==
    /\ op = "new_items_all" /\ given.sleep_ms = 4 /\ Len(given.items) = 24
    /\ ReturnedErr("IllegalParameter")
    /\ log = <<>>

\* C6: the log of a new_items_all call is POST, response, delay, POST,
\* response, delay, ..: one delay of sleep_ms between two consecutive POSTs,
\* taken after an accepted chunk; a call that succeeds over c chunks has
\* taken c-1 delays and none after its last chunk.
C6_Delays ==
    op = "new_items_all" =>
        /\ \A i \in 1..Len(log) :
              /\ i % 3 = 1 => IsPost(log[i])
              /\ i % 3 = 2 => IsResp(log[i])
              /\ i % 3 = 0 => /\ IsSleep(log[i])
                              /\ log[i].ms = given.sleep_ms
                              /\ Accepted(log[i-1].outcome)
        /\ ReturnedOk =>
              /\ Len(Posts(log)) = CeilDiv(Len(given.items), 10)
              /\ Len(Sleeps(log)) = Len(Posts(log)) - 1
              /\ IsResp(log[Len(log)])
        /\ (pc = "post" /\ Len(log) > 1) => IsSleep(log[Len(log) - 1])

\* C6 witness: a successful call over three chunks with two delays
C6_Witness ==
    /\ op = "new_items_all" /\ ReturnedOk
    /\ Len(Posts(log)) = 3
    /\ Len(Sleeps(log)) = 2
    /\ given.sleep_ms = 128

\* C7: new_items with more than 10 items returns IllegalParameter and sends
\* nothing; with 0 to 10 items it passes the check and sends exactly one
\* POST, carrying the items.
C7_SingleChunkLimit ==
    op = "new_items" =>
        IF Len(given.items) > 10
        THEN /\ ReturnedErr("IllegalParameter")
             /\ result.v.msg = "too many items"
             /\ log = <<>>
        ELSE /\ Posts(log) = <<Post(given.items)>>
             /\ log[1] = Post(given.items)
             /\ ~ReturnedErr("IllegalParameter")

\* C7 witness: new_items over 11 items has returned IllegalParameter
C7_Witness ==
    /\ op = "new_items" /\ Len(given.items) = 11
    /\ ReturnedErr("IllegalParameter")
    /\ log = <<>>

\* C8: a call of new_items, new_items_all or read_items that returns
\* IllegalParameter has sent no request.
C8_ValidationBeforeIO ==
    (op \in {"new_items", "new_items_all", "read_items"}
        /\ ReturnedErr("IllegalParameter")) => log = <<>>

\* C8 witness: read_items with a feed_id of the right length returned
\* IllegalParameter for its options
C8_Witness ==
    /\ op = "read_items" /\ ReturnedErr("IllegalParameter")
    /\ ~FeedIdIllegal(given.feed_id)
    /\ result.v.msg = "invalid u64"

\* ---------------------------------------------------------------------------
\* Claims on normalize_item_time
\* ---------------------------------------------------------------------------
Dots(s) == {i \in 1..Len(s) : s[i] = "."}

\* the text before the first '.', or all of it
BaseText(s) ==
    IF Dots(s) = {} THEN s
    ELSE SubSeq(s, 1, (CHOOSE k \in Dots(s) : \A j \in Dots(s) : k <= j) - 1)

\* the text after the first '.', or "0"
SlotText(s) ==
    IF Dots(s) = {} THEN <<"0">>
    ELSE SubSeq(s, (CHOOSE k \in Dots(s) : \A j \in Dots(s) : k <= j) + 1, Len(s))

\* the decimal rendering of a number: digits, no leading zero
IsDecimal(s) ==
    /\ s # <<>>
    /\ \A i \in 1..Len(s) : s[i] \in DigitChars
    /\ Len(s) = 1 \/ s[1] # "0"

\* r is base b and slot t in canonical form: 13 digits, '.', 5 digits
IsCanonicalOf(r, b, t) ==
    /\ Len(r) = 19
    /\ r[14] = "."
    /\ \A i \in (1..19) \ {14} : r[i] \in DigitChars
    /\ StripZeros(SubSeq(r, 1, 13)) = b
    /\ StripZeros(SubSeq(r, 15, 19)) = t

\* C9: for B in 0..9,999,999,999,999 and S in 0..99,999 written in decimal,
\* normalize_item_time("B.S") is Ok of B padded with zeros to 13 digits, a
\* '.', and S padded to 5 digits; and "B" alone gives what "B.0" gives.
C9_CanonicalForm ==
    (/\ normalized.some
     /\ Cardinality(Dots(item_time)) <= 1
     /\ IsDecimal(BaseText(item_time)) /\ IsDecimal(SlotText(item_time))
     /\ NumLeq(BaseText(item_time), Repeat("9", 13))
     /\ NumLeq(SlotText(item_time), Repeat("9", 5))) =>
        /\ normalized.v.ok
        /\ IsCanonicalOf(normalized.v.val, BaseText(item_time), SlotText(item_time))
        /\ Dots(item_time) = {} =>
               normalized.v = normalize_item_time(item_time \o <<".", "0">>)

\* C9 witness: "7.12" was normalized to "0000000000007.00012"
C9_Witness ==
    /\ item_time = <<"7", ".", "1", "2">>
    /\ normalized.some /\ normalized.v.ok
    /\ normalized.v.val = Repeat("0", 12) \o <<"7", ".", "0", "0", "0", "1", "2">>

\* C10: normalizing a result of normalize_item_time succeeds and gives that
\* result again.
C10_Idempotent ==
    (normalized.some /\ normalized.v.ok /\ renormalized.some) =>
        /\ renormalized.v.ok
        /\ renormalized.v.val = normalized.v.val

\* C10 witness: "+5.007", not canonical itself, was normalized twice
C10_Witness ==
    /\ item_time = <<"+", "5", ".", "0", "0", "7">>
    /\ normalized.some /\ normalized.v.ok
    /\ renormalized.some
    /\ normalized.v.val # item_time

\* the byte of a character of a canonical item time
CharCode(c) == IF c = "." THEN 46 ELSE 48 + DigitVal(c)

RECURSIVE StrLess(_, _)
\* a < b in the byte-wise lexicographic order of strings
StrLess(a, b) ==
    IF b = <<>> THEN FALSE
    ELSE IF a = <<>> THEN TRUE
    ELSE IF CharCode(a[1]) # CharCode(b[1]) THEN CharCode(a[1]) < CharCode(b[1])
    ELSE StrLess(Tail(a), Tail(b))

\* the number a valid segment denotes: its digits without sign and zeros
ValueOf(text) == StripZeros(IF text[1] = "+" THEN Tail(text) ELSE text)

NumLess(a, b) == NumLeq(a, b) /\ a # b

\* C11: for two valid item times the canonical strings compare as the pairs
\* (base, slot) do: the first is lexicographically less iff its base is
\* less, or the bases are equal and its slot is less; they are equal iff
\* the pairs are equal.
C11_OrderPreserved ==
    (/\ normalized.some /\ normalized.v.ok
     /\ other_normalized.some /\ other_normalized.v.ok) =>
        LET b1 == ValueOf(BaseText(item_time))
            s1 == ValueOf(SlotText(item_time))
            b2 == ValueOf(BaseText(other_time))
            s2 == ValueOf(SlotText(other_time))
        IN  /\ StrLess(normalized.v.val, other_normalized.v.val)
                <=> (NumLess(b1, b2) \/ (b1 = b2 /\ NumLess(s1, s2)))
            /\ normalized.v.val = other_normalized.v.val
                <=> (b1 = b2 /\ s1 = s2)

\* C11 witness: "7.12" and "12.9": 7 < 12, and the canonical strings agree,
\* while the inputs themselves compare the other way
C11_Witness ==
    /\ item_time = <<"7", ".", "1", "2">>
    /\ other_time = <<"1", "2", ".", "9">>
    /\ normalized.some /\ other_normalized.some
    /\ StrLess(normalized.v.val, other_normalized.v.val)
    /\ StrLess(other_time, item_time)

\* C12: normalize_item_time on a string with more than one '.' fails with
\* an error of kind IllegalParameter.
C12_MultiDotIllegalParameter ==
    (normalized.some /\ Cardinality(Dots(item_time)) > 1) =>
        /\ ~normalized.v.ok
        /\ normalized.v.kind = "IllegalParameter"

\* ---------------------------------------------------------------------------
\* Claims on the read path
\* ---------------------------------------------------------------------------
\* a segment that denotes a non-negative integer: digits, possibly signed '+'
IsNonNegInt(text) ==
    LET d == IF Len(text) > 1 /\ text[1] = "+" THEN Tail(text) ELSE text
    IN  d # <<>> /\ \A i \in 1..Len(d) : d[i] \in DigitChars

\* a segment that is no integer, or one above limit
BadSegment(text, limit) ==
    ~IsNonNegInt(text) \/ ~NumLeq(ValueOf(text), limit)

\* the read_items call in progress was given options
ReadWithOptions == op = "read_items" /\ given.read_options.some

\* its options pass the checks on max_items and on the pair of bounds
RangeChecksPass(o) ==
    /\ o.max_items >= 1 /\ o.max_items <= 50
    /\ o.include_item_content => o.max_items <= 10
    /\ ~(o.item_time_after.some /\ o.item_time_before.some)

\* the one bound that is set
TheBound(o) ==
    IF o.item_time_after.some THEN o.item_time_after.v ELSE o.item_time_before.v

\* C13: an item time with at most one '.' whose base or slot is not a
\* non-negative integer (an empty segment included), whose base is above
\* 9,999,999,999,999 or whose slot is above 99,999 is rejected with
\* IllegalParameter, the base being judged before the slot; read_items
\* given it as item_time_after or item_time_before returns that error of
\* normalize_item_time and sends no request.
C13_InvalidSegments ==
    (/\ ReadWithOptions
     /\ ~FeedIdIllegal(given.feed_id)
     /\ RangeChecksPass(given.read_options.v)
     /\ given.read_options.v.item_time_after.some
            \/ given.read_options.v.item_time_before.some
     /\ Cardinality(Dots(TheBound(given.read_options.v))) <= 1) =>
        LET x == TheBound(given.read_options.v)
            badBase == BadSegment(BaseText(x), Repeat("9", 13))
            badSlot == BadSegment(SlotText(x), Repeat("9", 5))
        IN  (badBase \/ badSlot) =>
                /\ ReturnedErr("IllegalParameter")
                /\ log = <<>>
                /\ result.v = normalize_item_time(x)
                /\ badBase =>
                      result.v.msg =
                         (IF IsNonNegInt(BaseText(x))
                          THEN "item time base ms may not be larger than"
                          ELSE "invalid u64")
                /\ (~badBase /\ IsNonNegInt(SlotText(x))) =>
                      result.v.msg = "item time suffix may not be larger than"
                /\ (~badBase /\ ~IsNonNegInt(SlotText(x))) =>
                      result.v.msg = "invalid u64"

\* C13 witness: item_time_before with a base above the limit and a slot
\* that is no number: the error is the one of the base, nothing was sent
C13_Witness ==
    /\ ReadWithOptions /\ ReturnedErr("IllegalParameter")
    /\ ~given.read_options.v.item_time_after.some
    /\ given.read_options.v.item_time_before.some
    /\ given.read_options.v.item_time_before.v
           = <<"1">> \o Repeat("0", 13) \o <<".", "x">>
    /\ result.v.msg = "item time base ms may not be larger than"
    /\ log = <<>>

\* a bound that is not set, or one that normalize_item_time accepts
BoundNormalizes(bound) == bound.some => normalize_item_time(bound.v).ok

\* C14: validate_read_options accepts options (the GET is sent) exactly when
\* max_items is in 1..50, and at most 10 with include_item_content, at most
\* one bound is set and each bound set normalizes; any other options are
\* rejected with an error and nothing is sent.
C14_AcceptedIff ==
    (ReadWithOptions /\ ~FeedIdIllegal(given.feed_id)) =>
        LET o == given.read_options.v
        IN  IF /\ o.max_items >= 1 /\ o.max_items <= 50
               /\ o.include_item_content => o.max_items <= 10
               /\ ~(o.item_time_after.some /\ o.item_time_before.some)
               /\ BoundNormalizes(o.item_time_after)
               /\ BoundNormalizes(o.item_time_before)
            THEN /\ log # <<>>
                 /\ log[1].ev = "GET"
                 /\ log[1].query.max_items = o.max_items
            ELSE /\ Returned /\ ~result.v.ok
                 /\ log = <<>>

\* C14 witness: 50 items without content and one valid bound: the GET is out
C14_Witness ==
    /\ ReadWithOptions /\ pc = "get"
    /\ given.read_options.v.max_items = 50
    /\ ~given.read_options.v.include_item_content
    /\ given.read_options.v.item_time_after.some
    /\ Len(log) = 1

\* C15: validate_read_options reports the first check that fails, in the
\* order: max_items outside 1..10 with include_item_content, max_items
\* outside 1..50, both bounds set, a bound that does not normalize; the
\* error is determined by the options alone.
C15_FirstFailingCheck ==
    (ReadWithOptions /\ ~FeedIdIllegal(given.feed_id)) =>
        LET o == given.read_options.v
        IN  IF o.include_item_content /\ (o.max_items < 1 \/ o.max_items > 10)
            THEN /\ ReturnedErr("IllegalParameter")
                 /\ result.v.msg =
                       "max_items must be 1 to 10 when include_item_content is true"
            ELSE IF o.max_items < 1 \/ o.max_items > 50
            THEN /\ ReturnedErr("IllegalParameter")
                 /\ result.v.msg = "max_items must be 1 to 50"
            ELSE IF o.item_time_after.some /\ o.item_time_before.some
            THEN /\ ReturnedErr("IllegalParameter")
                 /\ result.v.msg =
                       "cannot simultaneously query with item_time_after and item_time_before"
            ELSE IF ~BoundNormalizes(o.item_time_after)
                    \/ ~BoundNormalizes(o.item_time_before)
            THEN /\ Returned
                 /\ result.v = normalize_item_time(TheBound(o))
            ELSE log # <<>>

\* C15 witness: 51 items with content and two bounds that are no item times:
\* three checks fail, the error is the one of the first
C15_Witness ==
    /\ ReadWithOptions /\ ReturnedErr("IllegalParameter")
    /\ given.read_options.v.max_items = 51
    /\ given.read_options.v.include_item_content
    /\ given.read_options.v.item_time_after.some
    /\ given.read_options.v.item_time_before.some
    /\ ~normalize_item_time(given.read_options.v.item_time_after.v).ok
    /\ result.v.msg = "max_items must be 1 to 10 when include_item_content is true"

\* C16: read_items rejects with IllegalParameter, sending nothing, a
\* feed_id that after trimming is not exactly 45 characters long, before it
\* looks at the options; a feed_id of 45 characters after trimming passes
\* the check and goes trimmed into the URL of the request.
C16_FeedIdLength ==
    op = "read_items" =>
        IF Len(Trim(given.feed_id)) # 45
        THEN /\ ReturnedErr("IllegalParameter")
             /\ result.v.msg = "feed_id is expected to be 45 characters"
             /\ log = <<>>
        ELSE /\ Returned =>
                 result.v.ok \/ result.v.msg # "feed_id is expected to be 45 characters"
             /\ log # <<>> => log[1].feed_id = Trim(given.feed_id)

\* ---------------------------------------------------------------------------
\* Claims on the interpretation of responses
\* ---------------------------------------------------------------------------
\* the call has returned on receiving a (code, text) response
ReturnedOnResponse ==
    /\ Returned
    /\ log # <<>>
    /\ IsResp(log[Len(log)])
    /\ ~log[Len(log)].outcome.err

LastOutcome == log[Len(log)].outcome

\* the text has the fields of the payload the operation expects
HasExpectedShape(o, text) ==
    /\ text.obj
    /\ text.code
    /\ o = "ping" => text.message
    /\ o = "new_items" => text.message /\ text.feed_id.some
    /\ o = "read_items" => text.feed_items.some

\* C17: for ping, new_items and read_items a response with status 200
\* yields the decoded payload when the body has the expected shape and a
\* Deserialization error when it has not; never HttpCode, DetailedHttpCode.
C17_Status200 ==
    (/\ op \in {"ping", "new_items", "read_items"}
     /\ ReturnedOnResponse
     /\ LastOutcome.code = 200) =>
        IF HasExpectedShape(op, LastOutcome.text)
        THEN /\ result.v.ok
             /\ op = "new_items" => result.v.val.feed_id = LastOutcome.text.feed_id.v
             /\ op = "read_items" => result.v.val = LastOutcome.text.feed_items.v
        ELSE ReturnedErr("Deserialization")

\* C17 witness: read_items received 200 with the body of a ping
C17_Witness ==
    /\ op = "read_items" /\ ReturnedOnResponse
    /\ LastOutcome.code = 200
    /\ LastOutcome.text = PingText
    /\ ReturnedErr("Deserialization")

\* C18: a response with a status other than 200 (201 included) yields an
\* error carrying that status: DetailedHttpCode when the body decodes as
\* the service-error payload, HttpCode when it does not; never a success,
\* never a Deserialization error.
C18_StatusNot200 ==
    (ReturnedOnResponse /\ LastOutcome.code # 200) =>
        /\ ~result.v.ok
        /\ result.v.code = LastOutcome.code
        /\ result.v.kind =
              (IF LastOutcome.text.obj THEN "DetailedHttpCode" ELSE "HttpCode")

\* C18 witness: new_items received 201 with a well-formed success body
C18_Witness ==
    /\ op = "new_items" /\ ReturnedOnResponse
    /\ LastOutcome.code = 201
    /\ LastOutcome.text = NewItemsText("feed-A")
    /\ ReturnedErr("DetailedHttpCode")
    /\ result.v.code = 201

\* C19 as stated: the message of a DetailedHttpCode error is error and
\* error_detail joined by " | " when both are present, and otherwise the
\* one that is present, whether the fields are empty or not.
C19_JoinedWhenBothPresent ==
    (ReturnedOnResponse /\ ReturnedErr("DetailedHttpCode")) =>
        LET t == LastOutcome.text
        IN  /\ (t.error.some /\ t.error_detail.some) =>
                  result.v.msg = t.error.v \o " | " \o t.error_detail.v
            /\ (t.error.some /\ ~t.error_detail.some) => result.v.msg = t.error.v
            /\ (~t.error.some /\ t.error_detail.some) => result.v.msg = t.error_detail.v

\* C19 amended: the message is error and error_detail joined by " | " when
\* both are present and error is not empty; error_detail alone when it is
\* present and error is absent or empty; error when error_detail is absent
\* (the empty string when both are absent).
C19_JoinedWhenErrorNonEmpty ==
    (ReturnedOnResponse /\ ReturnedErr("DetailedHttpCode")) =>
        LET t == LastOutcome.text
        IN  /\ (t.error.some /\ t.error.v # "" /\ t.error_detail.some) =>
                  result.v.msg = t.error.v \o " | " \o t.error_detail.v
            /\ ((~t.error.some \/ t.error.v = "") /\ t.error_detail.some) =>
                  result.v.msg = t.error_detail.v
            /\ (t.error.some /\ ~t.error_detail.some) => result.v.msg = t.error.v
            /\ (~t.error.some /\ ~t.error_detail.some) => result.v.msg = ""

\* C19 witness: 404 with an empty error and a detail: the detail alone
C19_Witness ==
    /\ ReturnedOnResponse /\ ReturnedErr("DetailedHttpCode")
    /\ LastOutcome.code = 404
    /\ LastOutcome.text = ErrorText(Some(""), Some("detail"))
    /\ result.v.msg = "detail"

\* a canonical item time: 13 digits, '.', 5 digits
IsCanonical(r) ==
    /\ Len(r) = 19
    /\ r[14] = "."
    /\ \A i \in (1..19) \ {14} : r[i] \in DigitChars

\* C20: the request read_items sends has max_items in 1..50, in 1..10 with
\* include_item_content, at most one of item_time_after / item_time_before,
\* each in canonical form; without options it carries max_items = 10,
\* include_item_content = false and no bound.
C20_RequestWellFormed ==
    (op = "read_items" /\ log # <<>>) =>
        LET q == log[1].query
        IN  /\ log[1].ev = "GET"
            /\ q.max_items >= 1 /\ q.max_items <= 50
            /\ q.include_item_content => q.max_items <= 10
            /\ ~(q.item_time_after.some /\ q.item_time_before.some)
            /\ q.item_time_after.some => IsCanonical(q.item_time_after.v)
            /\ q.item_time_before.some => IsCanonical(q.item_time_before.v)
            /\ ~given.read_options.some =>
                  /\ q.max_items = 10
                  /\ ~q.include_item_content
                  /\ ~q.item_time_after.some
                  /\ ~q.item_time_before.some

\* C20 witness: item_time_after "5" went out as "0000000000005.00000"
C20_Witness ==
    /\ ReadWithOptions /\ pc = "get"
    /\ given.read_options.v.item_time_after.some
    /\ given.read_options.v.item_time_after.v = <<"5">>
    /\ log[1].query.item_time_after.v = Repeat("0", 12) \o <<"5", ".">> \o Repeat("0", 5)

\* ---------------------------------------------------------------------------
\* Claims on validate_read_options as a function
\* ---------------------------------------------------------------------------
\* the bound of the result is the normalized form of the bound given
NormalizedFrom(out, in) ==
    IF in.some
    THEN /\ out.some
         /\ IsCanonical(out.v)
         /\ normalize_item_time(in.v) = Ok(out.v)
    ELSE ~out.some

\* C21: validate_read_options leaves the caller's options as they were,
\* whether it succeeds or fails; on success the result has the same
\* max_items and include_item_content and each bound in normalized form;
\* validating the same options again gives the same outcome.
C21_NoSideEffect ==
    validated.some =>
        /\ options = given.read_options
        /\ validated.v.ok =>
              /\ validated.v.val.max_items = given.read_options.max_items
              /\ validated.v.val.include_item_content
                    = given.read_options.include_item_content
              /\ NormalizedFrom(validated.v.val.item_time_after,
                                given.read_options.item_time_after)
              /\ NormalizedFrom(validated.v.val.item_time_before,
                                given.read_options.item_time_before)
        /\ revalidated.some => revalidated = validated

\* C21 witness: options with item_time_before "1.2" validated twice; the
\* result carries "0000000000001.00002" and the options still carry "1.2"
C21_Witness ==
    /\ revalidated.some
    /\ validated.v.ok
    /\ given.read_options.item_time_before = Some(<<"1", ".", "2">>)
    /\ options.item_time_before = Some(<<"1", ".", "2">>)
    /\ validated.v.val.item_time_before
          = Some(Repeat("0", 12) \o <<"1", ".">> \o Repeat("0", 4) \o <<"2">>)

\* ---------------------------------------------------------------------------
\* Claims on concurrent calls
\* ---------------------------------------------------------------------------
\* the requests of call i, in the order the transport saw them
WireOf(i) == SelectSeq(wire, LAMBDA e : e.call = i)

\* the k-th chunk of the items c was given
OwnChunk(c, k) == SubSeq(c.items, 10 * (k - 1) + 1, Min(10 * k, Len(c.items)))

\* what the call makes of a response that does not accept its chunk
FailureKind(o) ==
    IF o.err THEN "Reqwest"
    ELSE IF o.code = 200 THEN "Deserialization"
    ELSE IF o.text.obj THEN "DetailedHttpCode"
    ELSE "HttpCode"

\* C22: with two new_items_all calls interleaved in any way, the requests
\* of each call are its own chunks in its own order, a call that succeeds
\* has sent all of them and returns the feed id of its own first response,
\* and a call that fails on a response returns the error of its own first
\* refused chunk; nothing of this depends on what the other call did.
C22_CallsIndependent ==
    \A i \in CallIds :
        LET c == calls[i]
            W == WireOf(i)
            R == Resps(c.log)
        IN  /\ Len(W) = Len(Posts(c.log))
            /\ \A k \in 1..Len(W) : W[k].items = OwnChunk(c, k)
            /\ Len(R) \in {Len(W) - 1, Len(W)}
            /\ \A k \in 1..(Len(R) - 1) : Accepted(R[k].outcome)
            /\ (c.pc = "done" /\ c.result.v.ok) =>
                  /\ Len(W) = CeilDiv(Len(c.items), 10)
                  /\ Len(R) = Len(W)
                  /\ c.result.v.val = R[1].outcome.text.feed_id.v
            /\ (c.pc = "done" /\ ~c.result.v.ok /\ R # <<>>) =>
                  LET o == R[Len(R)].outcome
                  IN  /\ ~Accepted(o)
                      /\ Len(R) = Len(W)
                      /\ c.result.v.kind = FailureKind(o)
                      /\ ~o.err /\ o.code # 200 => c.result.v.code = o.code
            /\ (c.pc # "done") => ~c.result.some

\* C22 witness: the requests went out 1, 2, 1, 2, 2; call 1 was told
\* feed-A and then refused with 404, call 2 was told feed-B and succeeded
\* with feed-B after its three chunks
C22_Witness ==
    /\ Len(wire) = 5
    /\ wire[1].call = 1 /\ wire[2].call = 2 /\ wire[3].call = 1
    /\ wire[4].call = 2 /\ wire[5].call = 2
    /\ calls[1].pc = "done" /\ calls[2].pc = "done"
    /\ Resps(calls[1].log)[1].outcome = Response(200, NewItemsText("feed-A"))
    /\ ~calls[1].result.v.ok
    /\ calls[1].result.v.kind = "DetailedHttpCode"
    /\ calls[1].result.v.code = 404
    /\ Resps(calls[2].log)[1].outcome = Response(200, NewItemsText("feed-B"))
    /\ calls[2].result.v = Ok("feed-B")

====
